---- MODULE Spec2Model ----
(***************************************************************************)
(* Verification model of the ingredient matcher and of the keyword index   *)
(* of russ315/cooking-app (package internal/recipe).                       *)
(*                                                                         *)
(* Strings are TLA+ strings; a character is a string of length 1.          *)
(* float64 scores are modelled as exact fractions [n |-> .., d |-> ..].    *)
(***************************************************************************)
EXTENDS Integers, Sequences, FiniteSets, TLC

(***************************************************************************)
(* Bounds of the model.                                                    *)
(***************************************************************************)
\* number of AddSynonym / AddSubstitute calls explored in one behaviour
MaxLexiconCalls == 2
\* longest user ingredient list handed to the matcher
MaxUserIngredients == 2

(***************************************************************************)
(* Go's strings package, on ASCII.                                         *)
(***************************************************************************)
CharAt(s, i) == SubSeq(s, i, i)

upperLetters == "ABCDEFGHIJKLMNOPQRSTUVWXYZ"

lowerLetters == "abcdefghijklmnopqrstuvwxyz"

\* unicode.IsSpace restricted to the ASCII range
IsSpace(c) == c \in {" ", "\t", "\n", "\r", "\f"}

\* unicode.ToLower on the ASCII letters, as a table
lowerOf == [c \in {CharAt(upperLetters, i) : i \in 1..26} |->
               CharAt(lowerLetters, CHOOSE i \in 1..26 : CharAt(upperLetters, i) = c)]

ToLowerChar(c) == IF c \in DOMAIN lowerOf THEN lowerOf[c] ELSE c

RECURSIVE ToLower(_)
ToLower(s) == IF s = "" THEN "" ELSE ToLowerChar(Head(s)) \o ToLower(Tail(s))

RECURSIVE TrimLeftSpace(_)
TrimLeftSpace(s) ==
    IF s # "" /\ IsSpace(Head(s)) THEN TrimLeftSpace(Tail(s)) ELSE s

RECURSIVE TrimRightSpace(_)
TrimRightSpace(s) ==
    IF s # "" /\ IsSpace(CharAt(s, Len(s)))
    THEN TrimRightSpace(SubSeq(s, 1, Len(s) - 1))
    ELSE s

TrimSpace(s) == TrimRightSpace(TrimLeftSpace(s))

\* strings.Contains(a, b): b occurs in a (the empty string occurs everywhere)
Contains(a, b) ==
    \E i \in 1..(Len(a) - Len(b) + 1) : SubSeq(a, i, i + Len(b) - 1) = b

Range(seq) == {seq[i] : i \in 1..Len(seq)}

Min2(x, y) == IF x < y THEN x ELSE y

(***************************************************************************)
(* Exact fractions standing for float64 scores.                            *)
(***************************************************************************)
Frac(n, d) == [n |-> n, d |-> d]

FracGT(x, y) == x.n * y.d > y.n * x.d

FracEq(x, y) == x.n * y.d = y.n * x.d

FracGE(x, y) == x.n * y.d >= y.n * x.d

(***************************************************************************)
(* The built-in lexicon of initializeIngredientData.                       *)
(***************************************************************************)
synonymData ==
       ("egg" :> <<"eggs">>)
    @@ ("flour" :> <<"all-purpose flour", "plain flour", "white flour", "wheat flour">>)
    @@ ("sugar" :> <<"white sugar", "granulated sugar", "table sugar">>)
    @@ ("butter" :> <<"unsalted butter", "salted butter">>)
    @@ ("milk" :> <<"whole milk", "cow milk", "dairy milk">>)
    @@ ("onion" :> <<"yellow onion", "white onion", "red onion">>)
    @@ ("garlic" :> <<"garlic clove", "garlic cloves">>)
    @@ ("tomato" :> <<"tomatoes", "fresh tomato", "ripe tomato">>)
    @@ ("potato" :> <<"potatoes", "russet potato", "red potato">>)
    @@ ("carrot" :> <<"carrots", "baby carrot">>)
    @@ ("chicken" :> <<"chicken breast", "chicken thigh", "chicken meat">>)
    @@ ("beef" :> <<"ground beef", "beef meat", "steak">>)
    @@ ("rice" :> <<"white rice", "brown rice", "jasmine rice">>)
    @@ ("pasta" :> <<"spaghetti", "penne", "macaroni">>)
    @@ ("cheese" :> <<"cheddar", "mozzarella", "parmesan">>)
    @@ ("olive oil" :> <<"extra virgin olive oil", "olive oil">>)
    @@ ("salt" :> <<"table salt", "sea salt">>)
    @@ ("pepper" :> <<"black pepper", "ground pepper">>)

aliasData ==
       ("eggs" :> "egg")
    @@ ("tomatoes" :> "tomato")
    @@ ("potatoes" :> "potato")
    @@ ("carrots" :> "carrot")
    @@ ("onions" :> "onion")
    @@ ("garlic cloves" :> "garlic")
    @@ ("chicken breast" :> "chicken")
    @@ ("ground beef" :> "beef")
    @@ ("spaghetti" :> "pasta")
    @@ ("cheddar" :> "cheese")
    @@ ("mozzarella" :> "cheese")
    @@ ("parmesan" :> "cheese")
    @@ ("black pepper" :> "pepper")
    @@ ("sea salt" :> "salt")
    @@ ("table salt" :> "salt")

substituteData ==
       ("egg" :> <<"flax egg", "chia egg", "apple sauce", "banana">>)
    @@ ("butter" :> <<"margarine", "coconut oil", "vegetable oil", "apple sauce">>)
    @@ ("sugar" :> <<"honey", "maple syrup", "agave nectar", "stevia">>)
    @@ ("milk" :> <<"almond milk", "soy milk", "oat milk", "coconut milk">>)
    @@ ("flour" :> <<"almond flour", "coconut flour", "oat flour", "rice flour">>)
    @@ ("sour cream" :> <<"yogurt", "buttermilk", "cream cheese">>)
    @@ ("mayonnaise" :> <<"greek yogurt", "avocado", "hummus">>)
    @@ ("rice" :> <<"quinoa", "couscous", "cauliflower rice">>)
    @@ ("pasta" :> <<"zucchini noodles", "spaghetti squash", "rice noodles">>)

(***************************************************************************)
(* State.                                                                  *)
(***************************************************************************)
VARIABLES
    synonyms,      \* IngredientMatcher.synonyms: canonical -> list of synonyms
    aliases,       \* IngredientMatcher.aliases: alias -> canonical
    substitutes,   \* IngredientMatcher.substitutes: ingredient -> list
    lexCalls,      \* number of AddSynonym / AddSubstitute calls made so far
    call,          \* the last matcher query: its arguments and its result
    gor,           \* the goroutines that call the lexicon concurrently
    fatal,         \* the Go runtime has aborted the process
    service,       \* which of the two search services the behaviour follows
    recipes,       \* RecipeRepository.recipes: id -> recipe
    nextRecipeID,  \* RecipeRepository.nextRecipeID
    index,         \* the service's index: keyword -> list of recipe ids
    indexCh,       \* the service's indexCh: the buffered channel of recipe ids
    pc,            \* the indexUpdater goroutine: the statement it is at
    worker,        \* the indexUpdater goroutine: its locals
    dropped,       \* the latest NotifyRecipeChange found indexCh full (history)
    hist           \* the latest undisturbed reindexRecipe (history)

lexVars == <<synonyms, aliases, substitutes, lexCalls>>

raceVars == <<gor, fatal>>

idxVars ==
    <<service, recipes, nextRecipeID, index, indexCh, pc, worker, dropped, hist>>

vars == <<synonyms, aliases, substitutes, lexCalls, call, gor, fatal,
          service, recipes, nextRecipeID, index, indexCh, pc, worker, dropped,
          hist>>

(***************************************************************************)
(* normalizeIngredientName.  The loop over im.synonyms visits the keys in  *)
(* an unspecified order, so a name listed under several keys and not an    *)
(* alias has several possible results: normalizeCandidates is the set of   *)
(* them.  NormalizeDeterministic (checked below) shows the set is a        *)
(* singleton in every reachable lexicon.                                   *)
(***************************************************************************)
normalizeCandidates(name) ==
    LET n == ToLower(TrimSpace(name))
        hits == {c \in DOMAIN synonyms : n \in Range(synonyms[c])}
    IN  IF n \in DOMAIN aliases THEN {aliases[n]}
        ELSE IF hits # {} THEN hits
        ELSE {n}

normalizeIngredientName(name) == CHOOSE c \in normalizeCandidates(name) : TRUE

(***************************************************************************)
(* levenshteinDistance: the dynamic-programming matrix, one row at a time. *)
(* A row is the sequence matrix[i][0..len(b)], stored at indices 1..len+1. *)
(***************************************************************************)
\* an assignment: the value is computed once, before the statements F that
\* read it
Assigned(value, F(_)) == CHOOSE result \in {F(v) : v \in {value}} : TRUE

RECURSIVE levenshteinRow(_, _, _, _, _)
levenshteinRow(prev, ch, b, j, row) ==
    IF j > Len(b) THEN row
    ELSE LET cost == IF ch # CharAt(b, j) THEN 1 ELSE 0
         IN  Assigned(Min2(prev[j + 1] + 1, Min2(row[j] + 1, prev[j] + cost)),
                      LAMBDA cell : levenshteinRow(prev, ch, b, j + 1, Append(row, cell)))

RECURSIVE levenshteinRows(_, _, _, _)
levenshteinRows(a, b, i, prev) ==
    IF i > Len(a) THEN prev
    ELSE Assigned(levenshteinRow(prev, CharAt(a, i), b, 1, <<i>>),
                  LAMBDA row : levenshteinRows(a, b, i + 1, row))

levenshteinDistance(a0, b0) ==
    LET a == ToLower(a0)
        b == ToLower(b0)
    IN  IF Len(a) = 0 THEN Len(b)
        ELSE IF Len(b) = 0 THEN Len(a)
        ELSE levenshteinRows(a, b, 1, [j \in 1..(Len(b) + 1) |-> j - 1])[Len(b) + 1]

\* the containment ratio is len(a) over the longer length
similarityScoreOfFirst(a0, b0) ==
    LET a == ToLower(a0)
        b == ToLower(b0)
        maxLen == IF Len(a) > Len(b) THEN Len(a) ELSE Len(b)
    IN  IF a = b THEN Frac(1, 1)
        ELSE IF Contains(a, b) \/ Contains(b, a)
        THEN Frac(Len(a), maxLen)
        ELSE IF maxLen = 0 THEN Frac(1, 1)
        ELSE LET distance == levenshteinDistance(a, b)
             IN  IF maxLen - distance < 0 THEN Frac(0, 1)
                 ELSE Frac(maxLen - distance, maxLen)

\* the containment ratio is the longer length over the shorter
similarityScoreInverted(a0, b0) ==
    LET a == ToLower(a0)
        b == ToLower(b0)
        maxLen == IF Len(a) > Len(b) THEN Len(a) ELSE Len(b)
    IN  IF a = b THEN Frac(1, 1)
        ELSE IF Contains(a, b) \/ Contains(b, a)
        THEN Frac(maxLen, Min2(Len(a), Len(b)))
        ELSE IF maxLen = 0 THEN Frac(1, 1)
        ELSE LET distance == levenshteinDistance(a, b)
             IN  IF maxLen - distance < 0 THEN Frac(0, 1)
                 ELSE Frac(maxLen - distance, maxLen)

similarityScore(a0, b0) ==
    LET a == ToLower(a0)
        b == ToLower(b0)
        maxLen == IF Len(a) > Len(b) THEN Len(a) ELSE Len(b)
    IN  IF a = b THEN Frac(1, 1)
        ELSE IF Contains(a, b) \/ Contains(b, a)
        THEN Frac(Min2(Len(a), Len(b)), maxLen)
        ELSE IF maxLen = 0 THEN Frac(1, 1)
        ELSE LET distance == levenshteinDistance(a, b)
             IN  IF maxLen - distance < 0 THEN Frac(0, 1)
                 ELSE Frac(maxLen - distance, maxLen)

(***************************************************************************)
(* isSynonym, isSubstitute: symmetric lookups in the directed tables.      *)
(***************************************************************************)
isSynonym(a, b) ==
    \/ a \in DOMAIN synonyms /\ b \in Range(synonyms[a])
    \/ b \in DOMAIN synonyms /\ a \in Range(synonyms[b])

isSubstitute(a, b) ==
    \/ a \in DOMAIN substitutes /\ b \in Range(substitutes[a])
    \/ b \in DOMAIN substitutes /\ a \in Range(substitutes[b])

(***************************************************************************)
(* MatchResult and findBestMatch.                                          *)
(***************************************************************************)
MatchResult(ingredient, score, matchType, original) ==
    [Ingredient |-> ingredient, Score |-> score, MatchType |-> matchType,
     Original |-> original]

\* the zero value of MatchResult
NoMatch == MatchResult("", Frac(0, 1), "", "")

\* the fuzzy check without its threshold of 0.6
betterMatchMutant(bestMatch, recipeIngredient, userIng, substitute, similarity) ==
    LET afterSubstitute ==
          IF substitute /\ FracGT(Frac(7, 10), bestMatch.Score)
          THEN MatchResult(recipeIngredient, Frac(7, 10), "substitute", userIng)
          ELSE bestMatch
    IN  IF /\ FracGT(similarity, Frac(0, 1))
           /\ FracGT(similarity, afterSubstitute.Score)
        THEN MatchResult(recipeIngredient, similarity, "fuzzy", userIng)
        ELSE afterSubstitute

\* the substitute check and the fuzzy check of one user ingredient: bestMatch
\* after them, given whether the ingredient is a substitute and its similarity
betterMatch(bestMatch, recipeIngredient, userIng, substitute, similarity) ==
    LET afterSubstitute ==
          IF substitute /\ FracGT(Frac(7, 10), bestMatch.Score)
          THEN MatchResult(recipeIngredient, Frac(7, 10), "substitute", userIng)
          ELSE bestMatch
    IN  IF /\ FracGT(similarity, Frac(6, 10))
           /\ FracGT(similarity, afterSubstitute.Score)
        THEN MatchResult(recipeIngredient, similarity, "fuzzy", userIng)
        ELSE afterSubstitute

RECURSIVE findBestMatchFrom(_, _, _, _)

\* the body of the loop for the user ingredient at i, already normalized
findBestMatchAt(recipeIngredient, userIngredients, i, bestMatch, normalizedUser) ==
    IF normalizedUser = recipeIngredient
    THEN MatchResult(recipeIngredient, Frac(1, 1), "exact", userIngredients[i])
    ELSE IF isSynonym(normalizedUser, recipeIngredient)
    THEN MatchResult(recipeIngredient, Frac(9, 10), "synonym", userIngredients[i])
    ELSE findBestMatchFrom(recipeIngredient, userIngredients, i + 1,
             betterMatch(bestMatch, recipeIngredient, userIngredients[i],
                         isSubstitute(normalizedUser, recipeIngredient),
                         similarityScore(normalizedUser, recipeIngredient)))

findBestMatchFrom(recipeIngredient, userIngredients, i, bestMatch) ==
    IF i > Len(userIngredients) THEN bestMatch
    ELSE findBestMatchAt(recipeIngredient, userIngredients, i, bestMatch,
                         normalizeIngredientName(userIngredients[i]))

findBestMatch(recipeIngredient, userIngredients) ==
    findBestMatchFrom(recipeIngredient, userIngredients, 1, NoMatch)

(***************************************************************************)
(* calculateRecipeMatch.  A recipe is a record with the fields ID, Name,   *)
(* Description and Ingredients, the last being the sequence of the         *)
(* ingredient names (RecipeIngredient.Ingredient.Name).  The parameter     *)
(* userIngredients (the set of normalized names) is not read by the code.  *)
(***************************************************************************)
\* the threshold test: the match is recorded when its score is above 0.3
acceptMatch(acc, recipeIngName, bestMatch) ==
    IF FracGT(bestMatch.Score, Frac(3, 10))
    THEN [matchDetails |-> Append(acc.matchDetails, bestMatch),
          matchedRecipeIngredients |-> acc.matchedRecipeIngredients \cup {recipeIngName},
          matchedUserIngredients |-> acc.matchedUserIngredients \cup {bestMatch.Original}]
    ELSE acc

\* the body of the loop for one recipe ingredient, already normalized
matchRecipeIngredient(acc, recipeIngName, originalUserIngredients) ==
    acceptMatch(acc, recipeIngName, findBestMatch(recipeIngName, originalUserIngredients))

RECURSIVE matchRecipeIngredients(_, _, _, _)
matchRecipeIngredients(recipe, originalUserIngredients, i, acc) ==
    IF i > Len(recipe.Ingredients) THEN acc
    ELSE matchRecipeIngredients(recipe, originalUserIngredients, i + 1,
             matchRecipeIngredient(acc, normalizeIngredientName(recipe.Ingredients[i]),
                                   originalUserIngredients))

\* one for every distinct string of the list that matched nothing
countExtraMutant(originalUserIngredients, matchedUserIngredients) ==
    Cardinality(Range(originalUserIngredients) \ matchedUserIngredients)

\* extraCount: one for every entry of the list that matched nothing
countExtra(originalUserIngredients, matchedUserIngredients) ==
    Cardinality({i \in 1..Len(originalUserIngredients) :
                    originalUserIngredients[i] \notin matchedUserIngredients})

\* a missing ingredient costs 0.1 instead of 0.2
scoreOfMutant(matchedRecipeCount, totalRecipeIngredients, missingCount, extraCount) ==
    Frac(100 * matchedRecipeCount
           - 10 * missingCount * totalRecipeIngredients
           - 5 * extraCount * totalRecipeIngredients,
         100 * totalRecipeIngredients)

\* baseScore - missingPenalty - extraPenalty over the denominator 100 * total
scoreOf(matchedRecipeCount, totalRecipeIngredients, missingCount, extraCount) ==
    Frac(100 * matchedRecipeCount
           - 20 * missingCount * totalRecipeIngredients
           - 5 * extraCount * totalRecipeIngredients,
         100 * totalRecipeIngredients)

\* the counts and the score, given the outcome m of the matching loop
recipeMatchResult(recipe, originalUserIngredients, m) ==
    LET totalRecipeIngredients == Len(recipe.Ingredients)
        matchedRecipeCount == Cardinality(m.matchedRecipeIngredients)
        missingCount == totalRecipeIngredients - matchedRecipeCount
        extraCount == countExtra(originalUserIngredients, m.matchedUserIngredients)
        overallScore == scoreOf(matchedRecipeCount, totalRecipeIngredients,
                                missingCount, extraCount)
    IN  [Recipe |-> recipe,
         OverallScore |-> IF overallScore.n < 0 THEN Frac(0, 1) ELSE overallScore,
         MatchDetails |-> m.matchDetails,
         MissingCount |-> missingCount,
         ExtraCount |-> extraCount]

calculateRecipeMatch(recipe, userIngredients, originalUserIngredients) ==
    recipeMatchResult(recipe, originalUserIngredients,
        matchRecipeIngredients(recipe, originalUserIngredients, 1,
            [matchDetails |-> <<>>, matchedRecipeIngredients |-> {},
             matchedUserIngredients |-> {}]))

\* the set normalizedUser that MatchIngredients builds (empties dropped)
normalizedUserSet(userIngredients) ==
    {normalizeIngredientName(userIngredients[i]) : i \in 1..Len(userIngredients)} \ {""}

(***************************************************************************)
(* AddSynonym, AddSubstitute: the two mutations of the lexicon.            *)
(***************************************************************************)
AddSynonym(canonical0, synonym0) ==
    LET canonical == normalizeIngredientName(canonical0)
        synonym == normalizeIngredientName(synonym0)
        existing == IF canonical \in DOMAIN synonyms THEN synonyms[canonical] ELSE <<>>
    IN  /\ lexCalls < MaxLexiconCalls
        /\ call.op = "none"
        /\ lexCalls' = lexCalls + 1
        /\ IF canonical = "" \/ synonym = ""
           THEN UNCHANGED <<synonyms, aliases>>
           ELSE IF synonym \in Range(existing)
           THEN /\ synonyms' = [k \in DOMAIN synonyms \cup {canonical} |->
                                   IF k = canonical THEN existing ELSE synonyms[k]]
                /\ UNCHANGED aliases
           ELSE /\ synonyms' = [k \in DOMAIN synonyms \cup {canonical} |->
                                   IF k = canonical THEN Append(existing, synonym)
                                   ELSE synonyms[k]]
                /\ aliases' = [k \in DOMAIN aliases \cup {synonym} |->
                                   IF k = synonym THEN canonical ELSE aliases[k]]
        /\ UNCHANGED <<substitutes, call>>

\* the substitute is appended without looking for it in the list
AddSubstituteMutant(ingredient0, substitute0) ==
    LET ingredient == normalizeIngredientName(ingredient0)
        substitute == normalizeIngredientName(substitute0)
        existing == IF ingredient \in DOMAIN substitutes THEN substitutes[ingredient]
                    ELSE <<>>
    IN  /\ lexCalls < MaxLexiconCalls
        /\ call.op = "none"
        /\ lexCalls' = lexCalls + 1
        /\ IF ingredient = "" \/ substitute = ""
           THEN UNCHANGED substitutes
           ELSE substitutes' = [k \in DOMAIN substitutes \cup {ingredient} |->
                                   IF k # ingredient THEN substitutes[k]
                                   ELSE Append(existing, substitute)]
        /\ UNCHANGED <<synonyms, aliases, call>>

AddSubstitute(ingredient0, substitute0) ==
    LET ingredient == normalizeIngredientName(ingredient0)
        substitute == normalizeIngredientName(substitute0)
        existing == IF ingredient \in DOMAIN substitutes THEN substitutes[ingredient]
                    ELSE <<>>
    IN  /\ lexCalls < MaxLexiconCalls
        /\ call.op = "none"
        /\ lexCalls' = lexCalls + 1
        /\ IF ingredient = "" \/ substitute = ""
           THEN UNCHANGED substitutes
           ELSE substitutes' = [k \in DOMAIN substitutes \cup {ingredient} |->
                                   IF k # ingredient THEN substitutes[k]
                                   ELSE IF substitute \in Range(existing) THEN existing
                                   ELSE Append(existing, substitute)]
        /\ UNCHANGED <<synonyms, aliases, call>>

GetSubstitutes(ingredient) ==
    LET normalized == normalizeIngredientName(ingredient)
    IN  IF normalized \in DOMAIN substitutes THEN substitutes[normalized] ELSE <<>>

(***************************************************************************)
(* Inputs of the lexicon specification.                                    *)
(***************************************************************************)
\* arguments of AddSynonym / AddSubstitute
LexiconInputs == {"kiwi", " Eggs", ""}

\* names a user supplies
UserNames == {"egg", "eggs", "buttr", "kiwi"}

RECURSIVE ListsUpTo(_, _)
ListsUpTo(S, n) ==
    IF n = 0 THEN {<<>>}
    ELSE LET shorter == ListsUpTo(S, n - 1)
         IN  shorter \cup {Append(l, x) : l \in shorter, x \in S}

UserLists == ListsUpTo(UserNames, MaxUserIngredients)

Recipe(id, name, description, ingredients) ==
    [ID |-> id, Name |-> name, Description |-> description, Ingredients |-> ingredients]

\* recipes handed to calculateRecipeMatch
QueryRecipes ==
    { Recipe(1, "Omelette", "egg, butter and salt", <<"egg", "butter", "salt">>),
      Recipe(2, "Egg salad", "", <<"Eggs", "egg">>),
      Recipe(3, "Fruit bowl", "", <<"Kiwi">>) }

QueryIngredients == UNION {Range(r.Ingredients) : r \in QueryRecipes}

NoCall ==
    [op |-> "none", recipeIngredient |-> "", userIngredients |-> <<>>,
     match |-> NoMatch, recipeMatch |-> <<>>]

\* A behaviour of the lexicon specification is a sequence of mutations followed
\* by one query, whose arguments and result stay in call.
\* findBestMatch as calculateRecipeMatch calls it: on a normalized recipe name
FindBestMatchCall ==
    \E x \in QueryIngredients, us \in UserLists :
        /\ call.op = "none"
        /\ call' = [op |-> "findBestMatch",
                    recipeIngredient |-> normalizeIngredientName(x),
                    userIngredients |-> us,
                    match |-> findBestMatch(normalizeIngredientName(x), us),
                    recipeMatch |-> <<>>]
        /\ UNCHANGED <<lexVars, raceVars, idxVars>>

\* calculateRecipeMatch as MatchIngredients calls it
CalculateRecipeMatchCall ==
    \E r \in QueryRecipes, us \in UserLists :
        /\ call.op = "none"
        /\ normalizedUserSet(us) # {}
        /\ call' = [op |-> "calculateRecipeMatch",
                    recipeIngredient |-> "",
                    userIngredients |-> us,
                    match |-> NoMatch,
                    recipeMatch |-> <<calculateRecipeMatch(r, normalizedUserSet(us), us)>>]
        /\ UNCHANGED <<lexVars, raceVars, idxVars>>

AddSynonymCall ==
    \E c \in LexiconInputs, s \in LexiconInputs :
        AddSynonym(c, s) /\ UNCHANGED <<raceVars, idxVars>>

AddSubstituteCall ==
    \E i \in LexiconInputs, s \in LexiconInputs :
        AddSubstitute(i, s) /\ UNCHANGED <<raceVars, idxVars>>

(***************************************************************************)
(* MatchIngredients over the catalog that the repository lists.            *)
(***************************************************************************)
RECURSIVE idsAscending(_)
idsAscending(ids) ==
    IF ids = {} THEN <<>>
    ELSE LET least == CHOOSE x \in ids : \A y \in ids : x <= y
         IN  <<least>> \o idsAscending(ids \ {least})

\* GetAll of the database repository: SELECT ... FROM recipes ORDER BY id
GetAll ==
    LET ids == idsAscending(DOMAIN recipes)
    IN  [i \in 1..Len(ids) |-> recipes[ids[i]]]

\* a result is appended when its score is positive
keepPositive(results, matchResult) ==
    IF FracGT(matchResult.OverallScore, Frac(0, 1))
    THEN Append(results, matchResult) ELSE results

\* the loop over the recipes: recipes without ingredients are skipped and
\* the results with a positive score are appended
RECURSIVE scoreRecipes(_, _, _, _)
scoreRecipes(list, userIngredients, i, results) ==
    IF i > Len(list) THEN results
    ELSE IF Len(list[i].Ingredients) = 0
    THEN scoreRecipes(list, userIngredients, i + 1, results)
    ELSE scoreRecipes(list, userIngredients, i + 1,
             keepPositive(results,
                 calculateRecipeMatch(list[i], normalizedUserSet(userIngredients),
                                      userIngredients)))

swap(results, i, j) ==
    [results EXCEPT ![i] = results[j], ![j] = results[i]]

\* the inner loop of the sort: j runs from i + 1 to the end
RECURSIVE sortInner(_, _, _)
sortInner(results, i, j) ==
    IF j > Len(results) THEN results
    ELSE sortInner(IF FracGT(results[j].OverallScore, results[i].OverallScore)
                   THEN swap(results, i, j) ELSE results,
                   i, j + 1)

\* the outer loop of the sort: i runs from the first to the last but one
RECURSIVE sortByScore(_, _)
sortByScore(results, i) ==
    IF i >= Len(results) THEN results
    ELSE sortByScore(sortInner(results, i, i + 1), i + 1)

\* results[:maxResults] when maxResults > 0 and the list is longer
limitResultsMutant(results, maxResults) ==
    IF maxResults >= 0 /\ Len(results) > maxResults
    THEN SubSeq(results, 1, maxResults) ELSE results

limitResults(results, maxResults) ==
    IF maxResults > 0 /\ Len(results) > maxResults
    THEN SubSeq(results, 1, maxResults) ELSE results

MatchIngredients(userIngredients, maxResults) ==
    IF normalizedUserSet(userIngredients) = {} THEN <<>>
    ELSE limitResults(sortByScore(scoreRecipes(GetAll, userIngredients, 1, <<>>), 1),
                      maxResults)

\* the catalog of the search specification
searchCatalog ==
       (1 :> Recipe(1, "Omelette", "egg, butter and salt", <<"egg", "butter", "salt">>))
    @@ (2 :> Recipe(2, "Egg salad", "", <<"Eggs", "egg">>))
    @@ (3 :> Recipe(3, "Fruit bowl", "", <<"Kiwi">>))
    @@ (4 :> Recipe(4, "Water", "a glass of water", <<>>))
    @@ (5 :> Recipe(5, "Boiled egg", "", <<"Egg">>))

\* empty and whitespace-only entries that a user list may end with
BlankTails == {<<>>, <<"">>, <<"  ">>}

\* values of maxResults
MaxResultsInputs == {-1, 0, 1, 2}

MatchIngredientsCall ==
    \E us \in UserLists, tail \in BlankTails, maxResults \in MaxResultsInputs :
        /\ call.op = "none"
        /\ call' = [op |-> "MatchIngredients",
                    userIngredients |-> us \o tail,
                    maxResults |-> maxResults,
                    results |-> MatchIngredients(us \o tail, maxResults)]
        /\ UNCHANGED <<lexVars, raceVars, idxVars>>

(***************************************************************************)
(* The searches of the database repository.                                *)
(***************************************************************************)
RECURSIVE selectRecipes(_, _)
selectRecipes(list, ids) ==
    IF list = <<>> THEN <<>>
    ELSE (IF Head(list).ID \in ids THEN <<Head(list)>> ELSE <<>>)
           \o selectRecipes(Tail(list), ids)

\* WHERE LOWER(name) LIKE %query% OR LOWER(description) LIKE %query% ORDER BY id
SearchByName(query0) ==
    LET query == TrimSpace(ToLower(query0))
    IN  IF query = "" THEN GetAll
        ELSE selectRecipes(GetAll,
                 {id \in DOMAIN recipes :
                     \/ Contains(ToLower(recipes[id].Name), query)
                     \/ Contains(ToLower(recipes[id].Description), query)})

\* every order in which the rows of a query without ORDER BY may arrive
orderings(ids) ==
    {seq \in [1..Cardinality(ids) -> ids] :
        \A i, j \in 1..Cardinality(ids) : i # j => seq[i] # seq[j]}

\* the names of the recipe's ingredients are compared as they are stored
SearchByIngredientsMutant(ingredientNames) ==
    LET want == {TrimSpace(ToLower(ingredientNames[i])) :
                    i \in 1..Len(ingredientNames)} \ {""}
        ids == {id \in DOMAIN recipes :
                   want \subseteq {recipes[id].Ingredients[i] :
                                      i \in 1..Len(recipes[id].Ingredients)}}
    IN  IF Len(ingredientNames) = 0 \/ want = {} THEN {GetAll}
        ELSE {[i \in 1..Len(order) |-> recipes[order[i]]] : order \in orderings(ids)}

\* the lists that SearchByIngredients may return: the recipes that have all
\* the wanted names, in the order in which the database lists their ids
SearchByIngredients(ingredientNames) ==
    LET want == {TrimSpace(ToLower(ingredientNames[i])) :
                    i \in 1..Len(ingredientNames)} \ {""}
        ids == {id \in DOMAIN recipes :
                   want \subseteq {ToLower(recipes[id].Ingredients[i]) :
                                      i \in 1..Len(recipes[id].Ingredients)}}
    IN  IF Len(ingredientNames) = 0 \/ want = {} THEN {GetAll}
        ELSE {[i \in 1..Len(order) |-> recipes[order[i]]] : order \in orderings(ids)}

(***************************************************************************)
(* ComprehensiveSearch.  A response carries, beside the fields of          *)
(* SearchResponse, the operations that were invoked and the list that the  *)
(* operation of the mode returned (invoked, underlying: history).          *)
(***************************************************************************)
\* req.MaxResults = 50 when it is not positive
DefaultMaxResults == 50

effectiveMaxResults(req) ==
    IF req.MaxResults <= 0 THEN DefaultMaxResults ELSE req.MaxResults

\* the basic conditions are tested before the advanced ones
searchModeMutant(req) ==
    IF Len(req.Ingredients) > 0 THEN "basic_ingredient"
    ELSE IF req.UseAdvanced /\ Len(req.Ingredients) > 0 THEN "advanced_ingredient"
    ELSE IF req.Query # "" THEN "text"
    ELSE "all"

\* the conditions of the if-chain, in its order
searchMode(req) ==
    IF req.UseAdvanced /\ Len(req.Ingredients) > 0 THEN "advanced_ingredient"
    ELSE IF Len(req.Ingredients) > 0 THEN "basic_ingredient"
    ELSE IF req.Query # "" THEN "text"
    ELSE "all"

\* the list is returned whole
capRecipesMutant(list, maxResults) == list

\* recipes[:req.MaxResults] when the list is longer
capRecipes(list, maxResults) ==
    IF Len(list) > maxResults THEN SubSeq(list, 1, maxResults) ELSE list

\* the threshold is not applied
filterByScoreMutant(matches, minMatchScore) == matches

\* the loop that keeps the matches with OverallScore >= req.MinMatchScore
filterByScore(matches, minMatchScore) ==
    IF FracGT(minMatchScore, Frac(0, 1))
    THEN SelectSeq(matches, LAMBDA m : FracGE(m.OverallScore, minMatchScore))
    ELSE matches

recipesOf(matches) == [i \in 1..Len(matches) |-> matches[i].Recipe]

SearchResponse(req, searchType, list, matches, operation, underlying) ==
    [Recipes |-> list, AdvancedMatches |-> matches, TotalCount |-> Len(list),
     Query |-> req.Query, SearchType |-> searchType,
     invoked |-> {operation}, underlying |-> underlying]

\* the response of the advanced mode, given the matches found
advancedResponse(req, found, matches) ==
    SearchResponse(req, "advanced_ingredient", recipesOf(matches), matches,
                   "AdvancedIngredientSearch", recipesOf(found))

\* the response of a repository mode, given the list that the repository returned
listResponse(req, searchType, operation, list) ==
    SearchResponse(req, searchType, capRecipes(list, effectiveMaxResults(req)), <<>>,
                   operation, list)

\* the responses of the advanced mode
advancedSearch(req, found) ==
    {advancedResponse(req, found, filterByScore(found, req.MinMatchScore))}

\* the responses that ComprehensiveSearch may give to a request
ComprehensiveSearch(req) ==
    CASE searchMode(req) = "advanced_ingredient" ->
           advancedSearch(req, MatchIngredients(req.Ingredients, effectiveMaxResults(req)))
      [] searchMode(req) = "basic_ingredient" ->
           {listResponse(req, "basic_ingredient", "SearchByIngredients", list) :
               list \in SearchByIngredients(req.Ingredients)}
      [] searchMode(req) = "text" ->
           {listResponse(req, "text", "SearchByName", SearchByName(req.Query))}
      [] OTHER ->
           {listResponse(req, "all", "GetAll", GetAll)}

\* requests of the search specification
QueryInputs == {"", " ", "Egg"}

MinMatchScoreInputs == {Frac(0, 1), Frac(1, 2)}

SearchRequests ==
    [Query : QueryInputs, Ingredients : UserLists, MaxResults : MaxResultsInputs,
     MinMatchScore : MinMatchScoreInputs, UseAdvanced : BOOLEAN]

ComprehensiveSearchCall ==
    /\ call.op = "none"
    /\ \E req \in SearchRequests :
          \E response \in ComprehensiveSearch(req) :
              call' = [op |-> "ComprehensiveSearch", req |-> req,
                       response |-> response]
    /\ UNCHANGED <<lexVars, raceVars, idxVars>>

\* names handed to SearchByIngredients: blank, padded and capitalised ones
IngredientNameInputs == {"", "  ", " Egg", "KIWI", "salt"}

\* SearchByIngredients of the service, which hands the list to the repository
SearchByIngredientsCall ==
    /\ call.op = "none"
    /\ \E names \in ListsUpTo(IngredientNameInputs, MaxUserIngredients) :
          \E list \in SearchByIngredients(names) :
              call' = [op |-> "SearchByIngredients", ingredientNames |-> names,
                       recipes |-> list]
    /\ UNCHANGED <<lexVars, raceVars, idxVars>>

(***************************************************************************)
(* One recipe scored for a user list that grows by one entry at a time.    *)
(***************************************************************************)
\* longest user list of the penalty specification
MaxPenaltyList == 12

\* recipes and first lists of the penalty specification
PenaltyRecipes ==
    { Recipe(1, "Omelette", "egg, butter and salt", <<"egg", "butter", "salt">>),
      Recipe(3, "Fruit bowl", "", <<"Kiwi">>) }

PenaltyLists == {<<"egg", "buttr">>, <<"egg">>}

\* entries by which the user extends the list
ExtraNames == {"xx", "kiwi"}

recipeMatchCall(recipe, us) ==
    [op |-> "calculateRecipeMatch",
     recipeIngredient |-> "",
     userIngredients |-> us,
     match |-> NoMatch,
     recipeMatch |-> <<calculateRecipeMatch(recipe, normalizedUserSet(us), us)>>]

\* the same recipe is scored again for the list with one more entry
AppendUserIngredient ==
    \E x \in ExtraNames :
        /\ call.op = "calculateRecipeMatch"
        /\ Len(call.userIngredients) < MaxPenaltyList
        /\ call' = recipeMatchCall(call.recipeMatch[1].Recipe,
                                   Append(call.userIngredients, x))
        /\ UNCHANGED <<lexVars, raceVars, idxVars>>

(***************************************************************************)
(* similarityScore on arbitrary short strings.                             *)
(***************************************************************************)
\* longest string handed to similarityScore
MaxSimLen == 3

SimAlphabet == {"a", "b", "A"}

RECURSIVE StringsUpTo(_)
StringsUpTo(n) ==
    IF n = 0 THEN {""}
    ELSE LET shorter == StringsUpTo(n - 1)
         IN  shorter \cup {x \o c : x \in shorter, c \in SimAlphabet}

SimStrings == StringsUpTo(MaxSimLen)

\* the score of a pair of names, asked in both orders of the arguments
SimilarityScoreCall ==
    \E a \in SimStrings, b \in SimStrings :
        /\ call.op = "none"
        /\ call' = [op |-> "similarityScore", a |-> a, b |-> b,
                    score |-> similarityScore(a, b),
                    reverse |-> similarityScore(b, a)]
        /\ UNCHANGED <<lexVars, raceVars, idxVars>>

(***************************************************************************)
(* The recipe store: the RecipeRepository with its seed data.              *)
(***************************************************************************)
\* recipe ids the store may hand out
MaxRecipeID == 4
\* capacity of indexCh in the model (make(chan int, 50) in the source)
IndexChCap == 2

\* seedData: the first id that Create hands out
FirstFreeID == 4

seedRecipes ==
       (1 :> Recipe(1, "Scrambled Eggs", "Simple fluffy scrambled eggs",
                    <<"Eggs", "Salt", "Butter">>))
    @@ (2 :> Recipe(2, "Pancakes", "Classic breakfast pancakes",
                    <<"Eggs", "Flour", "Milk", "Sugar", "Butter">>))
    @@ (3 :> Recipe(3, "Tomato Chicken", "Chicken with tomato and garlic",
                    <<"Chicken", "Tomato", "Onion", "Garlic">>))

\* bodies of the create requests
CreateRequests ==
    { [Name |-> "Tomato Soup", Description |-> "A hot soup.",
       Ingredients |-> <<"Tomato", "Salt">>] }

\* bodies of the update requests
UpdateRequests ==
    { [Name |-> "Potato Soup", Description |-> "With eggs!",
       Ingredients |-> <<"Potato">>] }

\* recipe ids named by the requests: the ids that Create hands out, which
\* name no recipe before their creation and after their deletion
HandlerIDs == FirstFreeID..MaxRecipeID

Services == {"SearchService", "EnhancedSearchService"}

NoRecipe == Recipe(0, "", "", <<>>)

Create(req) ==
    /\ recipes' = recipes @@
          (nextRecipeID :> Recipe(nextRecipeID, req.Name, req.Description, req.Ingredients))
    /\ nextRecipeID' = nextRecipeID + 1

Update(id, req) ==
    /\ recipes' = [recipes EXCEPT ![id] = Recipe(id, req.Name, req.Description,
                                                 req.Ingredients)]
    /\ UNCHANGED nextRecipeID

Delete(id) ==
    /\ recipes' = [k \in DOMAIN recipes \ {id} |-> recipes[k]]
    /\ UNCHANGED nextRecipeID

(***************************************************************************)
(* The keyword index.                                                      *)
(***************************************************************************)
RECURSIVE fieldsFrom(_, _, _)
fieldsFrom(s, word, acc) ==
    IF s = "" THEN (IF word = "" THEN acc ELSE Append(acc, word))
    ELSE IF IsSpace(Head(s))
    THEN fieldsFrom(Tail(s), "", IF word = "" THEN acc ELSE Append(acc, word))
    ELSE fieldsFrom(Tail(s), word \o Head(s), acc)

\* strings.Fields: the maximal runs of non-space characters
Fields(s) == fieldsFrom(s, "", <<>>)

RECURSIVE TrimLeft(_, _)
TrimLeft(s, cutset) ==
    IF s # "" /\ Head(s) \in cutset THEN TrimLeft(Tail(s), cutset) ELSE s

RECURSIVE TrimRight(_, _)
TrimRight(s, cutset) ==
    IF s # "" /\ CharAt(s, Len(s)) \in cutset
    THEN TrimRight(SubSeq(s, 1, Len(s) - 1), cutset)
    ELSE s

\* strings.Trim(w, ".,!?")
Trim(s, cutset) == TrimRight(TrimLeft(s, cutset), cutset)

punctuation == {".", ",", "!", "?"}

\* the keywords whose posting list holds the recipe
keywordsOf(idx, id) == {kw \in DOMAIN idx : id \in Range(idx[kw])}

\* s.index[w] = append(s.index[w], recipeID)
post(idx, w, recipeID) ==
    [kw \in DOMAIN idx \cup {w} |->
        IF kw = w THEN Append(IF w \in DOMAIN idx THEN idx[w] ELSE <<>>, recipeID)
        ELSE idx[kw]]

\* the old entries of the recipe stay
purgeMutant(idx, recipeID) == idx

\* a keyword that listed the recipe is deleted with all its recipes
purgeDropsKeyword(idx, recipeID) ==
    [kw \in {k \in DOMAIN idx : recipeID \notin Range(idx[k])} |-> idx[kw]]

\* a keyword that loses its last recipe stays, with an empty list
purgeKeepsEmpty(idx, recipeID) ==
    [kw \in DOMAIN idx |-> SelectSeq(idx[kw], LAMBDA id : id # recipeID)]

\* the loop that removes the old entries of a recipe
purge(idx, recipeID) ==
    LET newIds(kw) == SelectSeq(idx[kw], LAMBDA id : id # recipeID)
    IN  [kw \in {k \in DOMAIN idx : newIds(k) # <<>>} |-> newIds(kw)]

\* the loop over the words of name and description; st = [index, seen]
RECURSIVE postWords(_, _, _, _)
\* the loop stops before the last word
postWordsMutant(st, words, i, recipeID) ==
    IF i >= Len(words) THEN st
    ELSE LET w == Trim(words[i], punctuation)
         IN  IF Len(w) >= 2 /\ w \notin st.seen
             THEN postWords([index |-> post(st.index, w, recipeID),
                             seen |-> st.seen \cup {w}],
                            words, i + 1, recipeID)
             ELSE postWords(st, words, i + 1, recipeID)

postWords(st, words, i, recipeID) ==
    IF i > Len(words) THEN st
    ELSE LET w == Trim(words[i], punctuation)
         IN  IF Len(w) >= 2 /\ w \notin st.seen
             THEN postWords([index |-> post(st.index, w, recipeID),
                             seen |-> st.seen \cup {w}],
                            words, i + 1, recipeID)
             ELSE postWords(st, words, i + 1, recipeID)

\* the loop over the ingredient names (EnhancedSearchService only)
RECURSIVE postIngredients(_, _, _, _)
postIngredients(st, ingredients, i, recipeID) ==
    IF i > Len(ingredients) THEN st
    ELSE LET ingName == ToLower(ingredients[i])
         IN  IF Len(ingName) >= 2 /\ ingName \notin st.seen
             THEN postIngredients([index |-> post(st.index, ingName, recipeID),
                                   seen |-> st.seen \cup {ingName}],
                                  ingredients, i + 1, recipeID)
             ELSE postIngredients(st, ingredients, i + 1, recipeID)

textWords(recipe) == Fields(ToLower(recipe.Name \o " " \o recipe.Description))

\* rebuildIndex over the recipes in the order GetAll returned them
RECURSIVE rebuildFrom(_, _, _, _)
rebuildFrom(idx, list, i, svc) ==
    IF i > Len(list) THEN idx
    ELSE LET recipe == list[i]
             t == postWords([index |-> idx, seen |-> {}], textWords(recipe), 1, recipe.ID)
             u == IF svc = "EnhancedSearchService"
                  THEN postIngredients(t, recipe.Ingredients, 1, recipe.ID)
                  ELSE t
         IN  rebuildFrom(u.index, list, i + 1, svc)

rebuildIndex(list, svc) == rebuildFrom(<<>>, list, 1, svc)

(***************************************************************************)
(* NotifyRecipeChange: the non-blocking send.                              *)
(***************************************************************************)
\* a plain send, which waits for a free slot
NotifyRecipeChangeMutant(recipeID) ==
    /\ Len(indexCh) < IndexChCap
    /\ indexCh' = Append(indexCh, recipeID)
    /\ dropped' = FALSE

NotifyRecipeChange(recipeID) ==
    IF Len(indexCh) < IndexChCap
    THEN /\ indexCh' = Append(indexCh, recipeID)
         /\ dropped' = FALSE
    ELSE /\ indexCh' = indexCh
         /\ dropped' = TRUE

(***************************************************************************)
(* The handlers.  What a running reindexRecipe reads of a recipe that is   *)
(* updated after its GetByID depends on the repository.  The database      *)
(* repository, the only one an EnhancedSearchService is built on, returned *)
(* a copy: the old fields.  The in-memory repository, on which a           *)
(* SearchService may be built, returned a pointer to the object that       *)
(* Update assigns field by field without synchronising with the reader:    *)
(* each of the fields that SearchService reads is the old or the new one.  *)
(***************************************************************************)
NoHist == [id |-> 0, index |-> <<>>, runs |-> 0, before |-> {}]

holdsPointer(id) ==
    pc \in {"Lock", "ingredients"} /\ worker.recipeID = id

\* a store change ends the history of undisturbed reindex runs of the recipe
storeChanged(id) == hist' = IF hist.id = id THEN NoHist ELSE hist

updateSeenByWorker(id, req) ==
    IF holdsPointer(id)
    THEN IF service = "SearchService"
         THEN \E n \in {worker.recipe.Name, req.Name},
                 d \in {worker.recipe.Description, req.Description} :
                 worker' = [worker EXCEPT !.touched = TRUE,
                                          !.recipe.Name = n,
                                          !.recipe.Description = d]
         ELSE worker' = [worker EXCEPT !.touched = TRUE]
    ELSE UNCHANGED worker

deleteSeenByWorker(id) ==
    IF holdsPointer(id)
    THEN worker' = [worker EXCEPT !.touched = TRUE]
    ELSE UNCHANGED worker

\* the handlers notify h.search, the SearchService
notifyFromHandler(id) ==
    IF service = "SearchService"
    THEN NotifyRecipeChange(id)
    ELSE UNCHANGED <<indexCh, dropped>>

CreateRecipe ==
    \E req \in CreateRequests :
        /\ nextRecipeID <= MaxRecipeID
        /\ req.Name # ""
        /\ Create(req)
        /\ notifyFromHandler(nextRecipeID)
        /\ UNCHANGED <<service, index, pc, worker, hist, lexVars, call, raceVars>>

UpdateRecipe ==
    \E id \in HandlerIDs, req \in UpdateRequests :
        /\ id \in DOMAIN recipes
        /\ Update(id, req)
        /\ updateSeenByWorker(id, req)
        /\ storeChanged(id)
        /\ notifyFromHandler(id)
        /\ UNCHANGED <<service, index, pc, lexVars, call, raceVars>>

DeleteRecipe ==
    \E id \in HandlerIDs :
        /\ id \in DOMAIN recipes
        /\ Delete(id)
        /\ deleteSeenByWorker(id)
        /\ storeChanged(id)
        /\ UNCHANGED <<service, index, indexCh, pc, dropped, lexVars, call, raceVars>>

\* NotifyRecipeChange called on the service itself, for any id
NotifyCall ==
    \E id \in HandlerIDs :
        /\ NotifyRecipeChange(id)
        /\ UNCHANGED <<service, recipes, nextRecipeID, index, pc, worker, hist,
                       lexVars, call, raceVars>>

(***************************************************************************)
(* indexUpdater and reindexRecipe, statement by statement:                 *)
(*   range        the receive of "for id := range s.indexCh"               *)
(*   GetByID      s.repo.GetByID(recipeID) and the early return            *)
(*   Lock         s.mu.Lock(), the purge loop and the loop over the words  *)
(*   ingredients  the loop over recipe.Ingredients (EnhancedSearchService) *)
(* The deferred Unlock runs with the last of them.                         *)
(***************************************************************************)
IdleWorker ==
    [recipeID |-> 0, recipe |-> NoRecipe, seen |-> {}, touched |-> FALSE,
     notFound |-> 0, before |-> {}]

\* the locals after reindexRecipe returned; notFoundID is the id of the run if
\* GetByID did not find it, else 0
returned(notFoundID) ==
    [IdleWorker EXCEPT !.notFound = notFoundID]

\* the received id stays in the channel
indexUpdaterReceiveMutant ==
    /\ pc = "range"
    /\ indexCh # <<>>
    /\ pc' = "GetByID"
    /\ worker' = [worker EXCEPT !.recipeID = Head(indexCh)]
    /\ UNCHANGED <<service, recipes, nextRecipeID, index, indexCh, dropped, hist,
                   lexVars, call, raceVars>>

indexUpdaterReceive ==
    /\ pc = "range"
    /\ indexCh # <<>>
    /\ pc' = "GetByID"
    /\ worker' = [worker EXCEPT !.recipeID = Head(indexCh)]
    /\ indexCh' = Tail(indexCh)
    /\ UNCHANGED <<service, recipes, nextRecipeID, index, dropped, hist,
                   lexVars, call, raceVars>>

\* a recipe that is not found loses its postings
reindexGetByIDPurges ==
    /\ pc = "GetByID"
    /\ IF worker.recipeID \in DOMAIN recipes
       THEN /\ pc' = "Lock"
            /\ worker' = [worker EXCEPT !.recipe = recipes[worker.recipeID],
                                        !.touched = FALSE]
            /\ UNCHANGED index
       ELSE /\ pc' = "range"
            /\ worker' = returned(worker.recipeID)
            /\ index' = purge(index, worker.recipeID)
    /\ UNCHANGED <<service, recipes, nextRecipeID, indexCh, dropped, hist,
                   lexVars, call, raceVars>>

\* a recipe that is not found ends the loop of indexUpdater
reindexGetByIDStops ==
    /\ pc = "GetByID"
    /\ IF worker.recipeID \in DOMAIN recipes
       THEN /\ pc' = "Lock"
            /\ worker' = [worker EXCEPT !.recipe = recipes[worker.recipeID],
                                        !.touched = FALSE]
       ELSE /\ pc' = "stopped"
            /\ worker' = returned(worker.recipeID)
    /\ UNCHANGED <<service, recipes, nextRecipeID, index, indexCh, dropped, hist,
                   lexVars, call, raceVars>>

reindexGetByID ==
    /\ pc = "GetByID"
    /\ IF worker.recipeID \in DOMAIN recipes
       THEN /\ pc' = "Lock"
            /\ worker' = [worker EXCEPT !.recipe = recipes[worker.recipeID],
                                        !.touched = FALSE]
       ELSE /\ pc' = "range"
            /\ worker' = returned(worker.recipeID)
    /\ UNCHANGED <<service, recipes, nextRecipeID, index, indexCh, dropped, hist,
                   lexVars, call, raceVars>>

\* the history of the run that ends with index newIndex; before is the set
\* of keywords that listed the recipe when the run took the lock
finished(newIndex, before) ==
    IF worker.touched THEN NoHist
    ELSE [id |-> worker.recipeID, index |-> newIndex,
          runs |-> IF hist.id = worker.recipeID THEN 2 ELSE 1,
          before |-> before]

reindexWords ==
    /\ pc = "Lock"
    /\ LET st == postWords([index |-> purge(index, worker.recipeID), seen |-> {}],
                           textWords(worker.recipe), 1, worker.recipeID)
       IN  /\ index' = st.index
           /\ IF service = "EnhancedSearchService"
              THEN /\ pc' = "ingredients"
                   /\ worker' = [worker EXCEPT
                                    !.seen = st.seen,
                                    !.before = keywordsOf(index, worker.recipeID)]
                   /\ UNCHANGED hist
              ELSE /\ pc' = "range"
                   /\ worker' = returned(0)
                   /\ hist' = finished(st.index, keywordsOf(index, worker.recipeID))
    /\ UNCHANGED <<service, recipes, nextRecipeID, indexCh, dropped,
                   lexVars, call, raceVars>>

\* the ingredient names are not posted by reindexRecipe
reindexIngredientsSkips ==
    /\ pc = "ingredients"
    /\ index' = index
    /\ pc' = "range"
    /\ worker' = returned(0)
    /\ hist' = finished(index, worker.before)
    /\ UNCHANGED <<service, recipes, nextRecipeID, indexCh, dropped,
                   lexVars, call, raceVars>>

reindexIngredients ==
    /\ pc = "ingredients"
    /\ LET st == postIngredients([index |-> index, seen |-> worker.seen],
                                 worker.recipe.Ingredients, 1, worker.recipeID)
       IN  /\ index' = st.index
           /\ pc' = "range"
           /\ worker' = returned(0)
           /\ hist' = finished(st.index, worker.before)
    /\ UNCHANGED <<service, recipes, nextRecipeID, indexCh, dropped,
                   lexVars, call, raceVars>>

\* the write lock is released when its section begins
muLockedMutant == FALSE

\* s.mu is write-locked between two statements of reindexRecipe: Lock is the
\* first statement of the section and the deferred Unlock runs at the return
muLocked == pc = "ingredients"

\* the goroutine can take a step: it is inside reindexRecipe, or at the
\* receive with an id in the channel
indexUpdaterCanStep ==
    \/ pc \in {"GetByID", "Lock", "ingredients"}
    \/ pc = "range" /\ indexCh # <<>>

\* a step of the goroutine, as the scheduler sees it: every step of
\* indexUpdater moves pc, and no other step does
indexUpdaterStep ==
    /\ indexUpdaterCanStep
    /\ pc' \in {"range", "GetByID", "Lock", "ingredients"} \ {pc}

indexUpdater ==
    \/ indexUpdaterReceive
    \/ reindexGetByID
    \/ reindexWords
    \/ reindexIngredients

(***************************************************************************)
(* Two requests on the IngredientMatcher at once.  The matcher has no      *)
(* mutex, so a call is a sequence of separate accesses to the shared maps: *)
(*   normalize  the two calls of normalizeIngredientName, the empty check  *)
(*   init       if im.synonyms[canonical] == nil { ... = []string{} }      *)
(*   check      the loop that looks for the value in the list              *)
(*   append     the read and append on the right of the assignment         *)
(*   store      the assignment im.synonyms[canonical] = ...                *)
(*   alias      im.aliases[synonym] = canonical (AddSynonym only)          *)
(*   lookup     the map read of GetSynonyms                                *)
(* The Go runtime may stop the program with "concurrent map writes" or     *)
(* "concurrent map read and map write" when a map write overlaps another   *)
(* access: fatal.                                                          *)
(***************************************************************************)
Goroutines == {1, 2}

RaceOps == {"AddSynonym", "AddSubstitute", "GetSynonyms"}

\* arguments of the racing requests
RaceKeys == {"kiwi", "melon"}

RaceValues == {"kiwifruit", "actinidia"}

IdleGor == [pc |-> "idle", op |-> "none", key |-> "", value |-> "", list |-> <<>>]

inCall(g) == gor[g].pc \notin {"idle", "done"}

lexiconMap(op) == IF op = "AddSubstitute" THEN substitutes ELSE synonyms

\* the goroutine is about to write a map
mapWrite(g) ==
    \/ gor[g].pc \in {"store", "alias"}
    \/ gor[g].pc = "init" /\ gor[g].key \notin DOMAIN lexiconMap(gor[g].op)

beginCall ==
    \E g \in Goroutines, op \in RaceOps, k \in RaceKeys, v \in RaceValues :
        /\ ~fatal
        /\ gor[g].pc = "idle"
        /\ gor' = [gor EXCEPT ![g] = [pc |-> "normalize", op |-> op, key |-> k,
                                      value |-> IF op = "GetSynonyms" THEN "" ELSE v,
                                      list |-> <<>>]]
        /\ UNCHANGED <<fatal, lexVars, call, idxVars>>

addNormalize ==
    \E g \in Goroutines :
        /\ ~fatal
        /\ gor[g].pc = "normalize"
        /\ \E k \in normalizeCandidates(gor[g].key),
              v \in normalizeCandidates(gor[g].value) :
               gor' = [gor EXCEPT ![g].key = k,
                                  ![g].value = IF gor[g].op = "GetSynonyms" THEN "" ELSE v,
                                  ![g].pc = IF gor[g].op = "GetSynonyms" THEN "lookup"
                                            ELSE IF k = "" \/ v = "" THEN "done"
                                            ELSE "init"]
        /\ UNCHANGED <<fatal, lexVars, call, idxVars>>

addInitList ==
    \E g \in Goroutines :
        /\ ~fatal
        /\ gor[g].pc = "init"
        /\ gor' = [gor EXCEPT ![g].pc = "check"]
        /\ IF gor[g].op = "AddSynonym"
           THEN /\ synonyms' = IF gor[g].key \in DOMAIN synonyms THEN synonyms
                               ELSE synonyms @@ (gor[g].key :> <<>>)
                /\ UNCHANGED substitutes
           ELSE /\ substitutes' = IF gor[g].key \in DOMAIN substitutes THEN substitutes
                                  ELSE substitutes @@ (gor[g].key :> <<>>)
                /\ UNCHANGED synonyms
        /\ UNCHANGED <<fatal, aliases, lexCalls, call, idxVars>>

addCheckExisting ==
    \E g \in Goroutines :
        /\ ~fatal
        /\ gor[g].pc = "check"
        /\ gor' = [gor EXCEPT ![g].pc =
                      IF gor[g].value \in Range(lexiconMap(gor[g].op)[gor[g].key])
                      THEN "done" ELSE "append"]
        /\ UNCHANGED <<fatal, lexVars, call, idxVars>>

addAppend ==
    \E g \in Goroutines :
        /\ ~fatal
        /\ gor[g].pc = "append"
        /\ gor' = [gor EXCEPT ![g].pc = "store",
                              ![g].list = Append(lexiconMap(gor[g].op)[gor[g].key],
                                                 gor[g].value)]
        /\ UNCHANGED <<fatal, lexVars, call, idxVars>>

addStore ==
    \E g \in Goroutines :
        /\ ~fatal
        /\ gor[g].pc = "store"
        /\ IF gor[g].op = "AddSynonym"
           THEN /\ synonyms' = [synonyms EXCEPT ![gor[g].key] = gor[g].list]
                /\ gor' = [gor EXCEPT ![g].pc = "alias"]
                /\ UNCHANGED substitutes
           ELSE /\ substitutes' = [substitutes EXCEPT ![gor[g].key] = gor[g].list]
                /\ gor' = [gor EXCEPT ![g].pc = "done"]
                /\ UNCHANGED synonyms
        /\ UNCHANGED <<fatal, aliases, lexCalls, call, idxVars>>

addAlias ==
    \E g \in Goroutines :
        /\ ~fatal
        /\ gor[g].pc = "alias"
        /\ aliases' = [k \in DOMAIN aliases \cup {gor[g].value} |->
                          IF k = gor[g].value THEN gor[g].key ELSE aliases[k]]
        /\ gor' = [gor EXCEPT ![g].pc = "done"]
        /\ UNCHANGED <<fatal, synonyms, substitutes, lexCalls, call, idxVars>>

getLookup ==
    \E g \in Goroutines :
        /\ ~fatal
        /\ gor[g].pc = "lookup"
        /\ gor' = [gor EXCEPT ![g].pc = "done",
                              ![g].list = IF gor[g].key \in DOMAIN synonyms
                                          THEN synonyms[gor[g].key] ELSE <<>>]
        /\ UNCHANGED <<fatal, lexVars, call, idxVars>>

\* the runtime detects a map write that overlaps another access of the maps
throwConcurrentMapAccess ==
    \E g \in Goroutines, h \in Goroutines :
        /\ ~fatal
        /\ g # h
        /\ mapWrite(g)
        /\ inCall(h)
        /\ fatal' = TRUE
        /\ UNCHANGED <<gor, lexVars, call, idxVars>>

(***************************************************************************)
(* Specifications.                                                         *)
(***************************************************************************)
InitLexicon ==
    /\ synonyms = synonymData
    /\ aliases = aliasData
    /\ substitutes = substituteData
    /\ lexCalls = 0
    /\ call = NoCall

InitIndexIdle ==
    /\ service = "SearchService"
    /\ recipes = seedRecipes
    /\ nextRecipeID = FirstFreeID
    /\ index = <<>>
    /\ indexCh = <<>>
    /\ pc = "range"
    /\ worker = IdleWorker
    /\ dropped = FALSE
    /\ hist = NoHist

InitRaceIdle ==
    /\ gor = [g \in Goroutines |-> IdleGor]
    /\ fatal = FALSE

\* the lexicon and the matcher queries
Init == InitLexicon /\ InitRaceIdle /\ InitIndexIdle

Next ==
    \/ AddSynonymCall
    \/ AddSubstituteCall
    \/ FindBestMatchCall
    \/ CalculateRecipeMatchCall

Spec == Init /\ [][Next]_vars

\* the orders in which GetAll may list the seed recipes: ORDER BY id in the
\* database repository, the iteration of a Go map in the in-memory repository
GetAllOrders(svc) ==
    LET n == Cardinality(DOMAIN seedRecipes)
    IN  {[i \in 1..n |-> seedRecipes[p[i]]] :
            p \in IF svc = "EnhancedSearchService"
                  THEN {[i \in 1..n |-> i]}
                  ELSE Permutations(DOMAIN seedRecipes)}

\* a search service after its constructor, over the seeded store
InitIdx ==
    /\ InitLexicon
    /\ InitRaceIdle
    /\ service \in Services
    /\ recipes = seedRecipes
    /\ nextRecipeID = FirstFreeID
    /\ index \in {rebuildIndex(list, service) : list \in GetAllOrders(service)}
    /\ indexCh = <<>>
    /\ pc = "range"
    /\ worker = IdleWorker
    /\ dropped = FALSE
    /\ hist = NoHist

NextIdx ==
    \/ CreateRecipe
    \/ UpdateRecipe
    \/ DeleteRecipe
    \/ NotifyCall
    \/ indexUpdaterReceive
    \/ reindexGetByID
    \/ reindexWords
    \/ reindexIngredients

SpecIdx == InitIdx /\ [][NextIdx]_vars

\* two requests on one matcher with the built-in lexicon
InitRace == InitLexicon /\ InitRaceIdle /\ InitIndexIdle

NextRace ==
    \/ beginCall
    \/ addNormalize
    \/ addInitList
    \/ addCheckExisting
    \/ addAppend
    \/ addStore
    \/ addAlias
    \/ getLookup
    \/ throwConcurrentMapAccess

SpecRace == InitRace /\ [][NextRace]_vars

\* the search entry points over the catalog, with the built-in lexicon
InitSearch ==
    /\ InitLexicon
    /\ InitRaceIdle
    /\ service = "EnhancedSearchService"
    /\ recipes = searchCatalog
    /\ nextRecipeID = 6
    /\ index = <<>>
    /\ indexCh = <<>>
    /\ pc = "range"
    /\ worker = IdleWorker
    /\ dropped = FALSE
    /\ hist = NoHist

NextSearch ==
    \/ MatchIngredientsCall
    \/ ComprehensiveSearchCall
    \/ SearchByIngredientsCall

SpecSearch == InitSearch /\ [][NextSearch]_vars

\* one recipe scored for a first list, with the built-in lexicon
InitPenalty ==
    /\ synonyms = synonymData
    /\ aliases = aliasData
    /\ substitutes = substituteData
    /\ lexCalls = 0
    /\ call \in {recipeMatchCall(r, us) : r \in PenaltyRecipes, us \in PenaltyLists}
    /\ InitRaceIdle
    /\ InitIndexIdle

NextPenalty ==
    \/ AppendUserIngredient

SpecPenalty == InitPenalty /\ [][NextPenalty]_vars

\* similarityScore reads no state: any matcher will do
NextSim ==
    \/ SimilarityScoreCall

SpecSim == Init /\ [][NextSim]_vars

\* the seed recipes for which a reindex is requested
ReindexedSeeds == {1}

\* NotifyRecipeChange called on the idle service for a recipe of the seed data
NotifySeedCall ==
    \E id \in ReindexedSeeds :
        /\ indexCh = <<>>
        /\ pc = "range"
        /\ NotifyRecipeChange(id)
        /\ UNCHANGED <<service, recipes, nextRecipeID, index, pc, worker, hist,
                       lexVars, call, raceVars>>

\* the index service over a store that only grows and changes: no recipe is
\* deleted, and a reindex is requested for unchanged recipes too
NextIdxKeep ==
    \/ CreateRecipe
    \/ UpdateRecipe
    \/ NotifyCall
    \/ NotifySeedCall
    \/ indexUpdaterReceive
    \/ reindexGetByID
    \/ reindexWords
    \/ reindexIngredients

SpecIdxKeep == InitIdx /\ [][NextIdxKeep]_vars

\* the goroutine of indexUpdater is scheduled whenever it can take a step
SpecIdxFair == SpecIdx /\ WF_pc(indexUpdaterStep)


(***************************************************************************)
(* Properties of the lexicon specification.                                *)
(***************************************************************************)
\* every name the lexicon mentions, and every input of the specification
ProbeNames ==
    LexiconInputs \cup UserNames \cup QueryIngredients
      \cup DOMAIN aliases \cup {aliases[k] : k \in DOMAIN aliases}
      \cup DOMAIN synonyms \cup UNION {Range(synonyms[k]) : k \in DOMAIN synonyms}
      \cup DOMAIN substitutes \cup UNION {Range(substitutes[k]) : k \in DOMAIN substitutes}

\* The order in which normalizeIngredientName visits the keys of im.synonyms
\* never decides its result.
NormalizeDeterministic ==
    \A s \in ProbeNames : Cardinality(normalizeCandidates(s)) = 1

\* C1: normalization is idempotent in every reachable lexicon: for the built-in
\* tables and after any AddSynonym / AddSubstitute calls, normalizing a
\* normalized name gives the same name.
C1_NormalizationIdempotent ==
    \A s \in ProbeNames :
        normalizeIngredientName(normalizeIngredientName(s)) = normalizeIngredientName(s)

\* C2: exact match supremacy: whenever some user ingredient normalizes to the
\* recipe ingredient, findBestMatch answers score 1.0 and match type "exact",
\* whatever the other user ingredients are and wherever they stand in the list.
C2_ExactMatchSupremacy ==
    ( /\ call.op = "findBestMatch"
      /\ \E i \in 1..Len(call.userIngredients) :
            normalizeIngredientName(call.userIngredients[i]) = call.recipeIngredient )
    => /\ FracEq(call.match.Score, Frac(1, 1))
       /\ call.match.MatchType = "exact"

\* the number of distinct normalized ingredient names of the recipe whose best
\* match passes the threshold 0.3
matchedCount(recipe, us) ==
    Cardinality({normalizeIngredientName(recipe.Ingredients[i]) :
                   i \in {j \in 1..Len(recipe.Ingredients) :
                            FracGT(findBestMatch(
                                     normalizeIngredientName(recipe.Ingredients[j]),
                                     us).Score,
                                   Frac(3, 10))}})

Omelette == Recipe(1, "Omelette", "egg, butter and salt", <<"egg", "butter", "salt">>)

\* C9: overall_score = max(0, matched/total - 0.2*missing - 0.05*extra) with
\* missing = total - matched; and the user list egg, buttr against the recipe
\* egg, butter, salt gives egg exact 1.0, butter fuzzy 5/6, one missing, no
\* extra, and the score 2/3 - 0.2 = 7/15.
C9_OverallScore ==
    call.op = "calculateRecipeMatch" =>
      LET rm == call.recipeMatch[1]
          total == Len(rm.Recipe.Ingredients)
          matched == matchedCount(rm.Recipe, call.userIngredients)
          raw == Frac(100 * matched - 20 * rm.MissingCount * total
                        - 5 * rm.ExtraCount * total,
                      100 * total)
      IN  /\ rm.MissingCount = total - matched
          /\ FracEq(rm.OverallScore, IF raw.n < 0 THEN Frac(0, 1) ELSE raw)
          /\ FracGE(rm.OverallScore, Frac(0, 1))
          /\ ( rm.Recipe = Omelette /\ call.userIngredients = <<"egg", "buttr">> )
             => /\ Len(rm.MatchDetails) = 2
                /\ rm.MatchDetails[1].MatchType = "exact"
                /\ rm.MatchDetails[1].Original = "egg"
                /\ FracEq(rm.MatchDetails[1].Score, Frac(1, 1))
                /\ rm.MatchDetails[2].MatchType = "fuzzy"
                /\ rm.MatchDetails[2].Original = "buttr"
                /\ FracEq(rm.MatchDetails[2].Score, Frac(5, 6))
                /\ rm.MissingCount = 1
                /\ rm.ExtraCount = 0
                /\ FracEq(rm.OverallScore, Frac(7, 15))

\* the example of C9 has been computed
C9_Witness ==
    /\ call.op = "calculateRecipeMatch"
    /\ call.recipeMatch[1].Recipe = Omelette
    /\ call.userIngredients = <<"egg", "buttr">>
    /\ FracEq(call.recipeMatch[1].OverallScore, Frac(7, 15))

\* C10: extra_count is the number of distinct user strings that are the
\* Original of no accepted match; repeating an unmatched string adds nothing.
C10_ExtraCountDistinct ==
    call.op = "calculateRecipeMatch" =>
      LET rm == call.recipeMatch[1]
          originals == {rm.MatchDetails[i].Original : i \in 1..Len(rm.MatchDetails)}
      IN  rm.ExtraCount = Cardinality(Range(call.userIngredients) \ originals)

(***************************************************************************)
(* Properties of the race specification.                                   *)
(***************************************************************************)
\* C3: concurrent lexicon mutations lose no update: when two AddSynonym (or
\* two AddSubstitute) calls for the same key with different values have both
\* returned, the list of the key holds both values and, for AddSynonym, both
\* aliases point to the key.
C3_NoLostUpdate ==
    \A g \in Goroutines, h \in Goroutines :
        ( /\ g # h
          /\ gor[g].pc = "done" /\ gor[h].pc = "done"
          /\ gor[g].op \in {"AddSynonym", "AddSubstitute"}
          /\ gor[h].op = gor[g].op
          /\ gor[g].key = gor[h].key /\ gor[g].key # ""
          /\ gor[g].value # gor[h].value
          /\ gor[g].value # "" /\ gor[h].value # "" )
        => /\ gor[g].key \in DOMAIN lexiconMap(gor[g].op)
           /\ {gor[g].value, gor[h].value} \subseteq Range(lexiconMap(gor[g].op)[gor[g].key])
           /\ gor[g].op = "AddSynonym" =>
                \A v \in {gor[g].value, gor[h].value} :
                    v \in DOMAIN aliases /\ aliases[v] = gor[g].key

\* the second half of C3: a mutation excludes every other access of the maps
C3_MutualExclusion ==
    /\ ~fatal
    /\ \A g \in Goroutines, h \in Goroutines :
          (g # h /\ inCall(g) /\ gor[g].op # "GetSynonyms") => ~inCall(h)

(***************************************************************************)
(* Properties of the index specification.                                  *)
(***************************************************************************)
\* the token set of a recipe: the words of name and description without
\* their punctuation, and for the EnhancedSearchService the ingredient names,
\* all in lower case and of at least two characters
tokenSet(recipe, svc) ==
    LET words == {Trim(w, punctuation) : w \in Range(textWords(recipe))}
        names == IF svc = "EnhancedSearchService"
                 THEN {ToLower(x) : x \in Range(recipe.Ingredients)}
                 ELSE {}
    IN  {t \in words \cup names : Len(t) >= 2}

\* this step is the return of a reindexRecipe that found its recipe
reindexReturns ==
    /\ pc \in {"Lock", "ingredients"}
    /\ pc' = "range"

\* C4: NotifyRecipeChange never blocks: it can be called in every state, for
\* every id; the queue never holds more than its capacity; a step taken with
\* a full queue leaves its content alone or is the worker's receive; and a
\* notification is dropped only when the queue is full.
C4_NotifyNeverBlocks ==
    /\ [](Len(indexCh) <= IndexChCap)
    /\ [](\A id \in HandlerIDs : ENABLED NotifyRecipeChange(id))
    /\ [][Len(indexCh) = IndexChCap
            => (indexCh' = indexCh \/ indexCh' = Tail(indexCh))]_vars
    /\ [][(dropped' /\ ~dropped)
            => (Len(indexCh) = IndexChCap /\ indexCh' = indexCh)]_vars

\* a notification met the full queue and was dropped
C4_Witness ==
    /\ dropped
    /\ Len(indexCh) = IndexChCap

\* C5 as stated: whenever reindexRecipe(id) returns and the store holds id,
\* the keywords that list id are exactly the token set of the stored recipe.
C5_IndexRoundTrip ==
    [][(reindexReturns /\ worker.recipeID \in DOMAIN recipes')
         => keywordsOf(index', worker.recipeID)
              = tokenSet(recipes'[worker.recipeID], service)]_vars

\* C5 with its condition: after a reindexRecipe(id) that no update or delete
\* of id overlapped, and until the next such change, the keywords that list id
\* are exactly the token set of the stored recipe (whenever the index is not
\* locked by a running reindex).
C5_IndexRoundTripUndisturbed ==
    (hist.id # 0 /\ pc # "ingredients")
    => /\ hist.id \in DOMAIN recipes
       /\ keywordsOf(index, hist.id) = tokenSet(recipes[hist.id], service)

\* a recipe indexed as "Tomato Soup" was renamed to "Potato Soup" and
\* reindexed: "tomato" lost it, "potato" gained it
C5_Witness ==
    /\ hist.id \in DOMAIN recipes
    /\ recipes[hist.id].Name = "Potato Soup"
    /\ "tomato" \in hist.before
    /\ "tomato" \notin keywordsOf(index, hist.id)
    /\ "potato" \in keywordsOf(index, hist.id)
    /\ pc = "range"

\* C6: a reindexRecipe(id) that follows an undisturbed reindexRecipe(id), with
\* no change of the stored recipe and no other index change in between,
\* returns with the index the first one left.
C6_ReindexIdempotent ==
    [][(reindexReturns /\ hist.id # 0 /\ hist.id = worker.recipeID)
         => index' = hist.index]_vars

\* the second of two reindex runs of one recipe state has returned
C6_Witness ==
    /\ hist.runs = 2
    /\ index = hist.index

\* C7: reindexRecipe for an id the store does not hold returns at once and
\* leaves the index as it is.
C7_NotFoundLeavesIndex ==
    [][(pc = "GetByID" /\ worker.recipeID \notin DOMAIN recipes
          /\ pc' # pc)
         => (index' = index /\ pc' = "range")]_vars

\* a recipe was indexed, deleted and then reindexed: its postings are still
\* there
C7_Witness ==
    /\ worker.notFound # 0
    /\ worker.notFound \notin DOMAIN recipes
    /\ keywordsOf(index, worker.notFound) # {}

\* C8: under fair scheduling of the worker, every id in the queue is
\* eventually received, and every reindexRecipe eventually returns to the
\* receive, whether or not it found its recipe.
C8_EveryNotificationProcessed ==
    /\ \A id \in HandlerIDs :
          (id \in Range(indexCh)) ~> (pc = "GetByID" /\ worker.recipeID = id)
    /\ (pc # "range") ~> (pc = "range")

\* the run before this one did not find its recipe, and the worker went on:
\* it received the next id and found that recipe
C8_Witness ==
    /\ worker.notFound # 0
    /\ pc = "Lock"

\* C14: every member of a synonym list is an alias of the key of the list:
\* for every key k of synonyms and every member m of synonyms[k],
\* aliases[m] = k, in the built-in lexicon and after any AddSynonym calls.
C14_SynonymsAreAliases ==
    \A k \in DOMAIN synonyms : \A m \in Range(synonyms[k]) :
        m \in DOMAIN aliases /\ aliases[m] = k

occurrences(list, x) == Cardinality({j \in 1..Len(list) : list[j] = x})

\* C15: AddSubstitute is idempotent and visible: after every call
\* AddSubstitute(i, s) whose arguments normalize to non-empty names, first or
\* repeated, GetSubstitutes(i) holds normalize(s) exactly once; a call with
\* an argument that normalizes to the empty name leaves the table unchanged.
C15_AddSubstituteIdempotent ==
    [][\A i, s \in LexiconInputs :
          AddSubstitute(i, s) =>
             IF normalizeIngredientName(i) = "" \/ normalizeIngredientName(s) = ""
             THEN substitutes' = substitutes
             ELSE occurrences(GetSubstitutes(i)', normalizeIngredientName(s)') = 1]_vars

\* the lexicon calls are used up and the substitute is in the list once
C15_Witness ==
    /\ lexCalls = 2
    /\ synonyms = synonymData
    /\ GetSubstitutes(" Eggs") = Append(substituteData["egg"], "kiwi")
    /\ occurrences(GetSubstitutes(" Eggs"), "kiwi") = 1

\* C16: a user ingredient that is listed as a synonym of the recipe
\* ingredient (as "tomatoes" is of "tomato", "eggs" of "egg") is reported by
\* findBestMatch with match type "synonym" and score 0.9.
C16_SynonymReported ==
    ( /\ call.op = "findBestMatch"
      /\ Len(call.userIngredients) = 1
      /\ call.recipeIngredient \in DOMAIN synonyms
      /\ ToLower(TrimSpace(call.userIngredients[1]))
            \in Range(synonyms[call.recipeIngredient])
      /\ ToLower(TrimSpace(call.userIngredients[1])) # call.recipeIngredient )
    => /\ call.match.MatchType = "synonym"
       /\ FracEq(call.match.Score, Frac(9, 10))

\* C29: every RecipeMatchResult of calculateRecipeMatch has
\* 0 <= missing_count <= number of recipe ingredients and
\* missing_count + len(match_details) = number of recipe ingredients, also
\* when two ingredients of the recipe normalize to the same name.
C29_MissingPlusMatched ==
    call.op = "calculateRecipeMatch" =>
        LET result == call.recipeMatch[1]
            total == Len(result.Recipe.Ingredients)
        IN  /\ 0 <= result.MissingCount
            /\ result.MissingCount <= total
            /\ result.MissingCount + Len(result.MatchDetails) = total

\* the MatchResult is one that the claim allows
allowedMatch(m) ==
    \/ m = NoMatch
    \/ m.MatchType = "exact" /\ FracEq(m.Score, Frac(1, 1))
    \/ m.MatchType = "synonym" /\ FracEq(m.Score, Frac(9, 10))
    \/ m.MatchType = "substitute" /\ FracEq(m.Score, Frac(7, 10))
    \/ /\ m.MatchType = "fuzzy"
       /\ FracGT(m.Score, Frac(6, 10))
       /\ FracGT(Frac(1, 1), m.Score)

\* the result of findBestMatch for every ingredient of the recipe, in order
bestMatches(recipe, userIngredients) ==
    [i \in 1..Len(recipe.Ingredients) |->
        findBestMatch(normalizeIngredientName(recipe.Ingredients[i]), userIngredients)]

\* C30: every MatchResult of findBestMatch is the zero value (score 0), or
\* has score 1.0 (exact), 0.9 (synonym) or 0.7 (substitute), or is a fuzzy
\* match with 0.6 < score < 1; so the results above the 0.3 threshold of
\* calculateRecipeMatch are exactly the non-zero ones, match_details holds
\* exactly those, and each of them has a match type and an Original that is
\* one of the strings of the user's list.
C30_MatchScores ==
    /\ call.op = "findBestMatch" =>
          /\ allowedMatch(call.match)
          /\ FracGT(call.match.Score, Frac(3, 10)) <=> call.match.Score.n # 0
    /\ call.op = "calculateRecipeMatch" =>
          LET result == call.recipeMatch[1]
          IN  /\ result.MatchDetails =
                    SelectSeq(bestMatches(result.Recipe, call.userIngredients),
                              LAMBDA m : m.Score.n # 0)
              /\ \A i \in 1..Len(result.MatchDetails) :
                    /\ allowedMatch(result.MatchDetails[i])
                    /\ result.MatchDetails[i].MatchType # ""
                    /\ result.MatchDetails[i].Original \in Range(call.userIngredients)

\* a recipe was matched by a fuzzy match of one ingredient, with no match for
\* another
C30_Witness ==
    /\ call.op = "calculateRecipeMatch"
    /\ \E i \in 1..Len(call.recipeMatch[1].MatchDetails) :
          call.recipeMatch[1].MatchDetails[i].MatchType = "fuzzy"
    /\ Len(call.recipeMatch[1].MatchDetails) < Len(call.recipeMatch[1].Recipe.Ingredients)

(***************************************************************************)
(* Properties of similarityScore.                                          *)
(***************************************************************************)
\* C17: similarity is symmetric: similarityScore(a, b) = similarityScore(b, a)
\* for all strings a and b, whichever of the three rules applies.
C17_SimilaritySymmetric ==
    call.op = "similarityScore" => FracEq(call.score, call.reverse)

\* a pair under the Levenshtein rule: different lengths, neither contains the
\* other, two edits apart
C17_Witness ==
    /\ call.op = "similarityScore"
    /\ call.a = "ab"
    /\ call.b = "bAa"
    /\ FracEq(call.score, Frac(1, 3))

\* C18: similarity is bounded and reflexive: 0 <= similarityScore(a, b) <= 1
\* for all a and b, similarityScore(a, a) = 1 (for the empty string too), and
\* the score is 0 when exactly one of the strings is empty.
C18_SimilarityBounded ==
    call.op = "similarityScore" =>
        /\ call.score.d > 0
        /\ FracGE(call.score, Frac(0, 1))
        /\ FracGE(Frac(1, 1), call.score)
        /\ (call.a = call.b => FracEq(call.score, Frac(1, 1)))
        /\ ((call.a = "") # (call.b = "") => FracEq(call.score, Frac(0, 1)))

\* exactly one of the strings is empty
C18_Witness ==
    /\ call.op = "similarityScore"
    /\ call.a = ""
    /\ call.b = "Ab"
    /\ FracEq(call.score, Frac(0, 1))

(***************************************************************************)
(* Properties of the search specification.                                 *)
(***************************************************************************)
isBlank(name) == ToLower(TrimSpace(name)) = ""

\* what a caller observes of a result list: recipe, score and counts
observed(results) ==
    [i \in 1..Len(results) |->
        [Recipe |-> results[i].Recipe, OverallScore |-> results[i].OverallScore,
         MissingCount |-> results[i].MissingCount,
         ExtraCount |-> results[i].ExtraCount]]

\* C11: a blank user ingredient is a no-op: when a list with a non-blank
\* entry is extended by an empty or whitespace-only entry, MatchIngredients
\* returns the same recipes with the same overall_score, missing_count and
\* extra_count as for the list without that entry.
C11_BlankIsNoOp ==
    ( /\ call.op = "MatchIngredients"
      /\ Len(call.userIngredients) >= 2
      /\ isBlank(call.userIngredients[Len(call.userIngredients)])
      /\ \E i \in 1..(Len(call.userIngredients) - 1) :
            ~isBlank(call.userIngredients[i]) )
    => observed(call.results)
         = observed(MatchIngredients(
               SubSeq(call.userIngredients, 1, Len(call.userIngredients) - 1),
               call.maxResults))


\* the recipes that MatchIngredients keeps for a user list, with their results
keptFor(us) ==
    {calculateRecipeMatch(recipes[id], normalizedUserSet(us), us) :
        id \in {k \in DOMAIN recipes :
                   /\ Len(recipes[k].Ingredients) > 0
                   /\ FracGT(calculateRecipeMatch(recipes[k], normalizedUserSet(us),
                                                  us).OverallScore, Frac(0, 1))}}

\* C13: MatchIngredients returns exactly the recipes that have an ingredient
\* and a positive overall_score, in non-increasing order of overall_score;
\* with maxResults > 0 it returns the first maxResults of that order, with
\* maxResults <= 0 all of them.
C13_KeptSortedTruncated ==
    call.op = "MatchIngredients" =>
      LET kept == keptFor(call.userIngredients)
          res == call.results
          n == Cardinality(kept)
      IN  /\ Range(res) \subseteq kept
          /\ \A i, j \in 1..Len(res) : i < j => res[i].Recipe.ID # res[j].Recipe.ID
          /\ \A i, j \in 1..Len(res) :
                i < j => FracGE(res[i].OverallScore, res[j].OverallScore)
          /\ \A m \in kept \ Range(res) : \A i \in 1..Len(res) :
                FracGE(res[i].OverallScore, m.OverallScore)
          /\ Len(res) = IF call.maxResults > 0 /\ n > call.maxResults
                        THEN call.maxResults ELSE n

\* three recipes are kept, the sort has moved the lowest from the first place
\* to the last and the limit has cut it
C13_Witness ==
    /\ call.op = "MatchIngredients"
    /\ call.userIngredients = <<"egg", "kiwi">>
    /\ call.maxResults = 2
    /\ {m.Recipe.ID : m \in keptFor(call.userIngredients)} = {2, 3, 5}
    /\ Len(call.results) = 2
    /\ call.results[1].Recipe.ID = 3
    /\ call.results[2].Recipe.ID = 5

\* C19: ComprehensiveSearch selects one mode and reports it in search_type:
\* "advanced_ingredient" iff use_advanced and ingredients is not empty, else
\* "basic_ingredient" iff ingredients is not empty, else "text" iff the query
\* is not empty, else "all"; only the operation of that mode is invoked.
C19_ModePrecedence ==
    call.op = "ComprehensiveSearch" =>
      LET req == call.req
          type == call.response.SearchType
          hasIngredients == req.Ingredients # <<>>
      IN  /\ type \in {"advanced_ingredient", "basic_ingredient", "text", "all"}
          /\ (type = "advanced_ingredient") = (req.UseAdvanced /\ hasIngredients)
          /\ (type = "basic_ingredient") = (~req.UseAdvanced /\ hasIngredients)
          /\ (type = "text") = (~hasIngredients /\ req.Query # "")
          /\ (type = "all") = (~hasIngredients /\ req.Query = "")
          /\ call.response.invoked =
               { CASE type = "advanced_ingredient" -> "AdvancedIngredientSearch"
                   [] type = "basic_ingredient" -> "SearchByIngredients"
                   [] type = "text" -> "SearchByName"
                   [] OTHER -> "GetAll" }

\* a request with a query, ingredients and use_advanced is answered by the
\* matcher alone
C19_Witness ==
    /\ call.op = "ComprehensiveSearch"
    /\ call.req.UseAdvanced
    /\ call.req.Query = "Egg"
    /\ call.req.Ingredients = <<"egg", "kiwi">>
    /\ call.response.SearchType = "advanced_ingredient"
    /\ call.response.invoked = {"AdvancedIngredientSearch"}
    /\ Len(call.response.AdvancedMatches) > 0

matcherResult ==
    MatchIngredients(call.req.Ingredients, effectiveMaxResults(call.req))

\* C21: in advanced mode with min_match_score > 0 every returned match has
\* overall_score >= min_match_score, every match of the ranked and truncated
\* matcher result that meets the threshold is returned, in the order of that
\* result, and recipes has the length and order of advanced_matches with
\* recipes[i] = advanced_matches[i].recipe.
C21_AdvancedFiltered ==
    (call.op = "ComprehensiveSearch"
        /\ call.response.SearchType = "advanced_ingredient") =>
        LET min == call.req.MinMatchScore
            matches == call.response.AdvancedMatches
            list == call.response.Recipes
            meeting == {j \in 1..Len(matcherResult) :
                           FracGE(matcherResult[j].OverallScore, min)}
        IN  /\ FracGT(min, Frac(0, 1)) =>
                  /\ \A i \in 1..Len(matches) : FracGE(matches[i].OverallScore, min)
                  /\ Len(matches) = Cardinality(meeting)
                  /\ \A i \in 1..Len(matches) :
                        \E j \in meeting :
                            /\ matches[i] = matcherResult[j]
                            /\ Cardinality({k \in meeting : k < j}) = i - 1
            /\ Len(list) = Len(matches)
            /\ \A i \in 1..Len(matches) : list[i] = matches[i].Recipe

\* an advanced response from which the threshold removed a match and kept another
C21_Witness ==
    /\ call.op = "ComprehensiveSearch"
    /\ call.response.SearchType = "advanced_ingredient"
    /\ FracGT(call.req.MinMatchScore, Frac(0, 1))
    /\ Len(call.response.AdvancedMatches) >= 1
    /\ Len(call.response.AdvancedMatches) < Len(call.response.underlying)

\* what a name of the list asks for: the name lowercased and trimmed
asksFor(name) == TrimSpace(ToLower(name))

\* C22: SearchByIngredients(names) returns exactly the recipes whose lowercased
\* ingredient names contain every non-blank name of the list, trimmed and
\* lowercased, each of them once; an empty list and a list of blank names
\* return the whole catalog.
C22_SearchByIngredientsExact ==
    call.op = "SearchByIngredients" =>
        LET names == call.ingredientNames
            has(id, name) ==
                \E k \in 1..Len(recipes[id].Ingredients) :
                    ToLower(recipes[id].Ingredients[k]) = asksFor(name)
            expected == {id \in DOMAIN recipes :
                            \A i \in 1..Len(names) :
                                asksFor(names[i]) = "" \/ has(id, names[i])}
        IN  /\ {call.recipes[i].ID : i \in 1..Len(call.recipes)} = expected
            /\ Len(call.recipes) = Cardinality(expected)
            /\ \A i \in 1..Len(call.recipes) :
                  call.recipes[i] = recipes[call.recipes[i].ID]
            /\ (\A i \in 1..Len(names) : asksFor(names[i]) = "") =>
                  Len(call.recipes) = Cardinality(DOMAIN recipes)

\* a list with a blank name and a padded, capitalised one selected some recipes
\* of the catalog and not others
C22_Witness ==
    /\ call.op = "SearchByIngredients"
    /\ call.ingredientNames = <<" Egg", "  ">>
    /\ Len(call.recipes) = 3

\* a list of blank names only returned the whole catalog
C22_WitnessBlank ==
    /\ call.op = "SearchByIngredients"
    /\ call.ingredientNames = <<"", "  ">>
    /\ Len(call.recipes) = Cardinality(DOMAIN recipes)

(***************************************************************************)
(* Properties of the penalty specification.                                *)
(***************************************************************************)
\* the step scores the same recipe for the list with one more entry, the
\* accepted matches are the same and the new entry is matched to nothing
extraEntryAdded ==
    /\ call.op = "calculateRecipeMatch"
    /\ call'.op = "calculateRecipeMatch"
    /\ call'.recipeMatch[1].Recipe = call.recipeMatch[1].Recipe
    /\ Len(call'.userIngredients) = Len(call.userIngredients) + 1
    /\ SubSeq(call'.userIngredients, 1, Len(call.userIngredients)) = call.userIngredients
    /\ call'.recipeMatch[1].MatchDetails = call.recipeMatch[1].MatchDetails
    /\ \A i \in 1..Len(call'.recipeMatch[1].MatchDetails) :
          call'.recipeMatch[1].MatchDetails[i].Original
             # call'.userIngredients[Len(call'.userIngredients)]

FracMinus(x, y) == Frac(x.n * y.d - y.n * x.d, x.d * y.d)

changedByStep ==
    {id \in DOMAIN recipes' : id \notin DOMAIN recipes \/ recipes'[id] # recipes[id]}

\* C23: after the handler created or updated a recipe, a reindex request for
\* its id is enqueued, the queue not being full, on the index of the
\* EnhancedSearchService, the service that serves ComprehensiveSearch.
C23_HandlerNotifiesEnhanced ==
    [][(service = "EnhancedSearchService" /\ Len(indexCh) < IndexChCap) =>
          \A id \in changedByStep : indexCh' = Append(indexCh, id)]_vars

readableRecipes(id, svc) ==
    IF id \in DOMAIN seedRecipes THEN {seedRecipes[id]}
    ELSE LET bodies == CreateRequests \cup UpdateRequests
             rest(n) == IF svc = "EnhancedSearchService" THEN {n} ELSE bodies
         IN  UNION {{Recipe(id, n.Name, d.Description, d.Ingredients) : d \in rest(n)} :
                       n \in bodies}

\* service, recipe id and the token set of a readable state of the recipe
readableTokens ==
    UNION {{<<svc, id, tokenSet(recipe, svc)>> : recipe \in readableRecipes(id, svc)} :
              svc \in Services, id \in 1..MaxRecipeID}

C26_IndexWellFormed ==
    \A kw \in DOMAIN index :
        /\ index[kw] # <<>>
        /\ \A i, j \in 1..Len(index[kw]) : index[kw][i] = index[kw][j] => i = j
        /\ Len(kw) >= 2

\* a reindexRecipe took the only posting of a keyword of the old text, and
\* posted the recipe under a keyword that lists other recipes
C26_Witness ==
    /\ pc = "range"
    /\ hist.id # 0
    /\ "hot" \in hist.before
    /\ "hot" \notin DOMAIN index
    /\ "with" \in DOMAIN index
    /\ Len(index["with"]) = 2

\* the posting list of a keyword without one recipe; empty for a keyword
\* that the index does not hold
othersIn(idx, kw, id) ==
    IF kw \in DOMAIN idx THEN SelectSeq(idx[kw], LAMBDA x : x # id) ELSE <<>>

relationOf(idx) == [kw \in DOMAIN idx |-> Range(idx[kw])]

\* every recipe that was created is in the store
nothingDeleted == DOMAIN recipes = 1..(nextRecipeID - 1)

\* every recipe that the handlers created or updated is the recipe of the
\* last reindexRecipe, which ran after the change and which no change overlapped
changesReindexed ==
    DOMAIN recipes \ DOMAIN seedRecipes \subseteq {hist.id}

\* C28: the incremental reindex agrees with the full build.  When no run is
\* in progress, no recipe was deleted, and every created or updated recipe
\* was reindexed after its change, once or again with the catalog unchanged,
\* the keyword -> set-of-ids relation of the index is the relation that
\* rebuildIndex produces on the catalog as it is now.
C28_IncrementalAgreesWithBuild ==
    (pc = "range" /\ nothingDeleted /\ changesReindexed) =>
        relationOf(index) = relationOf(rebuildIndex(GetAll, service))

\* a seed recipe was reindexed with the catalog unchanged, which moved it
\* behind the other seed recipe in the posting lists they share; then a
\* recipe was created, updated and reindexed
C28_Witness ==
    /\ service = "EnhancedSearchService"
    /\ pc = "range"
    /\ nothingDeleted
    /\ hist.id \in DOMAIN recipes
    /\ recipes[hist.id].Name = "Potato Soup"
    /\ index["eggs"] = <<2, 1, hist.id>>
    /\ rebuildIndex(GetAll, service)["eggs"] = <<1, 2, hist.id>>

====
